---- MODULE Spec2Model ----
(***************************************************************************)
(* Model of battery_analysis.py: the Coulomb-counting SOC estimator, the   *)
(* capacity-fade SOH estimator and the thermal-runaway detector.           *)
(*                                                                         *)
(* The three functions are pure transforms of a DataFrame.  A DataFrame is *)
(* a sequence of rows (time, current, temperature, capacity) plus the flag *)
(* hasCapacity (whether the 'capacity' column exists); the 'voltage'       *)
(* column is read by none of the three functions and is left out.          *)
(*                                                                         *)
(* pandas/numpy compute in IEEE-754 doubles.  A double is modelled as an   *)
(* exact rational or one of +inf, -inf, NaN, with the IEEE rules for       *)
(* division by zero and for NaN in comparisons.  Rounding and overflow of  *)
(* finite values are not modelled.                                         *)
(***************************************************************************)
EXTENDS Integers, Sequences, FiniteSets

VARIABLES data, hasCapacity, initial_capacity, initial_soc,
          threshold_temp, threshold_rate,
          socResult, sohResult, thermalResult,
          streamIdx, prevTime, prevTemp, chargeAcc, streamOut

vars == <<data, hasCapacity, initial_capacity, initial_soc,
          threshold_temp, threshold_rate,
          socResult, sohResult, thermalResult,
          streamIdx, prevTime, prevTemp, chargeAcc, streamOut>>

----------------------------------------------------------------------------
(* Bounds and program constants *)

MaxLen == 3

SecondsPerHour == 3600
Percent == 100
ClipLow == 0
ClipHigh == 100
DefaultCapacity == 2
DefaultSoc == 100
DefaultThresholdTemp == 45
DefaultThresholdRate == 2
DefaultTemperature == 25

----------------------------------------------------------------------------
(* IEEE doubles as exact rationals plus +inf, -inf and NaN *)

Abs(x) == IF x < 0 THEN -x ELSE x

RECURSIVE GCD(_, _)
GCD(a, b) == IF b = 0 THEN a ELSE GCD(b, a % b)

NaN == [k |-> "nan", n |-> 0, d |-> 1]
PInf == [k |-> "pinf", n |-> 0, d |-> 1]
NInf == [k |-> "ninf", n |-> 0, d |-> 1]

\* the finite value n/d (d # 0) in lowest terms with a positive denominator
Norm(n, d) ==
    LET g == GCD(Abs(n), Abs(d))
        s == IF d < 0 THEN -1 ELSE 1
    IN  [k |-> "fin", n |-> (s * n) \div g, d |-> Abs(d) \div g]

FInt(i) == [k |-> "fin", n |-> i, d |-> 1]

FSign(x) ==
    CASE x.k = "pinf" -> 1
      [] x.k = "ninf" -> -1
      [] x.k = "fin" -> (IF x.n > 0 THEN 1 ELSE IF x.n < 0 THEN -1 ELSE 0)
      [] OTHER -> 0

FNeg(x) ==
    CASE x.k = "pinf" -> NInf
      [] x.k = "ninf" -> PInf
      [] x.k = "fin" -> [k |-> "fin", n |-> -x.n, d |-> x.d]
      [] OTHER -> NaN

FAdd(a, b) ==
    IF a.k = "nan" \/ b.k = "nan" THEN NaN
    ELSE IF a.k = "fin" /\ b.k = "fin" THEN Norm(a.n * b.d + b.n * a.d, a.d * b.d)
    ELSE IF a.k = "fin" THEN b
    ELSE IF b.k = "fin" THEN a
    ELSE IF a.k = b.k THEN a
    ELSE NaN

FSub(a, b) == FAdd(a, FNeg(b))

FMul(a, b) ==
    IF a.k = "nan" \/ b.k = "nan" THEN NaN
    ELSE IF a.k = "fin" /\ b.k = "fin" THEN Norm(a.n * b.n, a.d * b.d)
    ELSE IF FSign(a) * FSign(b) = 0 THEN NaN
    ELSE IF FSign(a) * FSign(b) > 0 THEN PInf
    ELSE NInf

\* a zero divisor is +0.0: x - x and 0 * 3600 are +0.0 in IEEE arithmetic
FDiv(a, b) ==
    IF a.k = "nan" \/ b.k = "nan" THEN NaN
    ELSE IF a.k # "fin" /\ b.k # "fin" THEN NaN
    ELSE IF a.k # "fin" THEN (IF FSign(a) * FSign(b) >= 0 THEN
                                  (IF FSign(a) > 0 THEN PInf ELSE NInf)
                              ELSE (IF FSign(a) > 0 THEN NInf ELSE PInf))
    ELSE IF b.k # "fin" THEN FInt(0)
    ELSE IF b.n = 0 THEN (IF a.n > 0 THEN PInf ELSE IF a.n < 0 THEN NInf ELSE NaN)
    ELSE Norm(a.n * b.d, a.d * b.n)

FLt(a, b) ==
    IF a.k = "nan" \/ b.k = "nan" THEN FALSE
    ELSE IF a.k = "fin" /\ b.k = "fin" THEN a.n * b.d < b.n * a.d
    ELSE IF a.k = "ninf" THEN b.k # "ninf"
    ELSE IF b.k = "pinf" THEN a.k # "pinf"
    ELSE FALSE

\* faulty variant of FGt: a non-strict comparison
FGe(a, b) ==
    IF a.k = "nan" \/ b.k = "nan" THEN FALSE ELSE ~FLt(a, b)

FGt(a, b) == FLt(b, a)

\* faulty variant of FClip: the upper bound is not applied
FClipLowOnly(x, lo, hi) ==
    IF x.k = "nan" THEN NaN
    ELSE IF FLt(x, lo) THEN lo
    ELSE x

\* np.clip: NaN stays NaN, everything else saturates
FClip(x, lo, hi) ==
    IF x.k = "nan" THEN NaN
    ELSE IF FLt(x, lo) THEN lo
    ELSE IF FGt(x, hi) THEN hi
    ELSE x

----------------------------------------------------------------------------
(* pandas Series operations *)

\* data[name] as a Series of doubles
Column(df, name) == [i \in 1..Len(df) |-> FInt(df[i][name])]

\* Series.diff(): NaN at the first position
Diff(s) == [i \in DOMAIN s |-> IF i = 1 THEN NaN ELSE FSub(s[i], s[i - 1])]

\* Series.fillna(v)
FillNa(s, v) == [i \in DOMAIN s |-> IF s[i].k = "nan" THEN FInt(v) ELSE s[i]]

SeriesMul(a, b) == [i \in DOMAIN a |-> FMul(a[i], b[i])]

SeriesDiv(a, b) == [i \in DOMAIN a |-> FDiv(a[i], b[i])]

\* faulty variant of CumSum: the products are not accumulated
NoCumSum(s) == s

\* Series.cumsum() (no NaN can occur in current * dt for finite input)
CumSum(s) ==
    LET cs[i \in DOMAIN s] == IF i = 1 THEN s[1] ELSE FAdd(cs[i - 1], s[i])
    IN  [i \in DOMAIN s |-> cs[i]]

SeriesClip(s, lo, hi) == [i \in DOMAIN s |-> FClip(s[i], FInt(lo), FInt(hi))]

----------------------------------------------------------------------------
(* calculate_soc *)

\* faulty variant of SocDt: the first time step is filled with 1 instead of 0
SocDtFillOne(df) == FillNa(Diff(Column(df, "time")), 1)

SocDt(df) == FillNa(Diff(Column(df, "time")), 0)

ChargeUsed(df) == CumSum(SeriesMul(Column(df, "current"), SocDt(df)))

\* soc before clipping
SocRaw(df, cap, soc0) ==
    LET cu == ChargeUsed(df)
    IN  [i \in 1..Len(df) |->
            FSub(FInt(soc0),
                 FMul(FDiv(cu[i], FInt(cap * SecondsPerHour)), FInt(Percent)))]

\* faulty variant of SocSeries: the accumulator itself saturates, so the value
\* restarts from the bound on the next sample
SocSeriesSaturating(df, cap, soc0) ==
    LET step == SeriesMul(Column(df, "current"), SocDt(df))
        s[i \in 1..Len(df)] ==
            FClip(FSub(IF i = 1 THEN FInt(soc0) ELSE s[i - 1],
                       FMul(FDiv(step[i], FInt(cap * SecondsPerHour)), FInt(Percent))),
                  FInt(ClipLow), FInt(ClipHigh))
    IN  [i \in 1..Len(df) |-> s[i]]

SocSeries(df, cap, soc0) == SeriesClip(SocRaw(df, cap, soc0), ClipLow, ClipHigh)

----------------------------------------------------------------------------
(* calculate_soh *)

\* faulty variant of CurrentCapacity: the fallback is a fixed capacity of 1
CurrentCapacityFixed(df, hasCap, cap) ==
    IF hasCap THEN Column(df, "capacity")
    ELSE [i \in 1..Len(df) |-> FInt(1)]

CurrentCapacity(df, hasCap, cap) ==
    IF hasCap THEN Column(df, "capacity")
    ELSE [i \in 1..Len(df) |-> FInt(cap)]

SohSeries(df, hasCap, cap) ==
    LET cc == CurrentCapacity(df, hasCap, cap)
    IN  SeriesClip([i \in 1..Len(df) |-> FMul(FDiv(cc[i], FInt(cap)), FInt(Percent))],
                   ClipLow, ClipHigh)

----------------------------------------------------------------------------
(* detect_thermal_runaway *)

ThermalDt(df) == FillNa(Diff(Column(df, "time")), 1)

RateSeries(df) == SeriesDiv(FillNa(Diff(Column(df, "temperature")), 0), ThermalDt(df))

AlertSeries(df, thrTemp, thrRate) ==
    LET temp == Column(df, "temperature")
        dT_dt == RateSeries(df)
    IN  [i \in 1..Len(df) |->
            FGt(temp[i], FInt(thrTemp)) \/ FGt(dT_dt[i], FInt(thrRate))]

----------------------------------------------------------------------------
(* Inputs *)

SeqsUpTo(S) == UNION {[1..n -> S] : n \in 0..MaxLen}

SocTimes == {0, 1800, 3600}
Currents == {-1, 0, 2}
ThermalTimes == {0, 1, 10}
Temperatures == {30, 40, 50}
Capacities == {-1, 1, 2, 3}
CapacityConfigs == {-1, 0, 1, 2}
SocConfigs == {50, 100}
ThresholdTemps == {45, 50}

SocRows == [time : SocTimes, current : Currents,
            temperature : {DefaultTemperature}, capacity : {DefaultCapacity}]
SohRows == [time : {0}, current : {0},
            temperature : {DefaultTemperature}, capacity : Capacities]
ThermalRows == [time : ThermalTimes, current : {0},
                temperature : Temperatures, capacity : {DefaultCapacity}]

NoResult == [status |-> "none"]

\* Each function reads only its own columns and parameters, so the inputs
\* are drawn slice by slice: one slice varies what calculate_soc reads, one
\* what calculate_soh reads, one what detect_thermal_runaway reads.
Init ==
    /\ \/ /\ data \in SeqsUpTo(SocRows)
          /\ hasCapacity = TRUE
          /\ initial_capacity \in CapacityConfigs
          /\ initial_soc \in SocConfigs
          /\ threshold_temp = DefaultThresholdTemp
          /\ threshold_rate = DefaultThresholdRate
       \/ /\ data \in SeqsUpTo(SohRows)
          /\ hasCapacity \in BOOLEAN
          /\ initial_capacity \in CapacityConfigs
          /\ initial_soc = DefaultSoc
          /\ threshold_temp = DefaultThresholdTemp
          /\ threshold_rate = DefaultThresholdRate
       \/ /\ data \in SeqsUpTo(ThermalRows)
          /\ hasCapacity = TRUE
          /\ initial_capacity = DefaultCapacity
          /\ initial_soc = DefaultSoc
          /\ threshold_temp \in ThresholdTemps
          /\ threshold_rate = DefaultThresholdRate
    /\ socResult = NoResult
    /\ sohResult = NoResult
    /\ thermalResult = NoResult
    /\ streamIdx = 0
    /\ prevTime = 0
    /\ prevTemp = 0
    /\ chargeAcc = FInt(0)
    /\ streamOut = <<>>

streamVars == <<streamIdx, prevTime, prevTemp, chargeAcc, streamOut>>
inputVars == <<data, hasCapacity, initial_capacity, initial_soc,
               threshold_temp, threshold_rate>>

----------------------------------------------------------------------------
(* The three functions as operations.  A run applies one function to the *)
(* input it was given; the functions share no state.                      *)

Fresh ==
    /\ socResult.status = "none"
    /\ sohResult.status = "none"
    /\ thermalResult.status = "none"

\* soc.iloc[0] in the report lines raises IndexError on an empty Series
CalculateSoc ==
    /\ Fresh
    /\ socResult' =
         IF Len(data) = 0
         THEN [status |-> "error", error |-> "IndexError"]
         ELSE [status |-> "ok",
               charge_used |-> ChargeUsed(data),
               soc |-> SocSeries(data, initial_capacity, initial_soc)]
    /\ UNCHANGED <<inputVars, sohResult, thermalResult, streamVars>>

CalculateSoh ==
    /\ Fresh
    /\ sohResult' =
         IF Len(data) = 0
         THEN [status |-> "error", error |-> "IndexError"]
         ELSE [status |-> "ok",
               soh |-> SohSeries(data, hasCapacity, initial_capacity)]
    /\ UNCHANGED <<inputVars, socResult, thermalResult, streamVars>>

\* sum() and max() of an empty Series are 0 and NaN: no error
DetectThermalRunaway ==
    /\ Fresh
    /\ thermalResult' =
         [status |-> "ok",
          thermal_alert |-> AlertSeries(data, threshold_temp, threshold_rate),
          dT_dt |-> RateSeries(data)]
    /\ UNCHANGED <<inputVars, socResult, sohResult, streamVars>>

Next == CalculateSoc \/ CalculateSoh \/ DetectThermalRunaway

Spec == Init /\ [][Next]_vars

----------------------------------------------------------------------------
(* The streaming form: one sample at a time, carrying the previous         *)
(* timestamp, the previous temperature and the running charge sum.         *)

StreamStep ==
    /\ streamIdx < Len(data)
    /\ LET row == data[streamIdx + 1]
           first == streamIdx = 0
           dtSoc == IF first THEN FInt(0) ELSE FInt(row.time - prevTime)
           acc == FAdd(chargeAcc, FMul(FInt(row.current), dtSoc))
           soc == FClip(FSub(FInt(initial_soc),
                             FMul(FDiv(acc, FInt(initial_capacity * SecondsPerHour)),
                                  FInt(Percent))),
                        FInt(ClipLow), FInt(ClipHigh))
           cc == IF hasCapacity THEN FInt(row.capacity) ELSE FInt(initial_capacity)
           soh == FClip(FMul(FDiv(cc, FInt(initial_capacity)), FInt(Percent)),
                        FInt(ClipLow), FInt(ClipHigh))
           dtTh == IF first THEN FInt(1) ELSE FInt(row.time - prevTime)
           dT == IF first THEN FInt(0) ELSE FInt(row.temperature - prevTemp)
           rate == FDiv(dT, dtTh)
           alert == FGt(FInt(row.temperature), FInt(threshold_temp))
                        \/ FGt(rate, FInt(threshold_rate))
       IN  /\ chargeAcc' = acc
           /\ streamOut' = Append(streamOut,
                                  [soc |-> soc, soh |-> soh, rate |-> rate, alert |-> alert])
           /\ prevTime' = row.time
           /\ prevTemp' = row.temperature
           /\ streamIdx' = streamIdx + 1
    /\ UNCHANGED <<inputVars, socResult, sohResult, thermalResult>>

StreamNext == StreamStep

SpecStream == Init /\ [][StreamNext]_vars

----------------------------------------------------------------------------
(* Arithmetic used to state the claims, over the integers of the input,    *)
(* independent of the Series pipeline above.                               *)

NonDecreasing(df) == \A i \in 2..Len(df) : df[i - 1].time <= df[i].time

\* chargeUsed[1] = 0, chargeUsed[i] = chargeUsed[i-1] + current[i] * (t[i] - t[i-1])
RECURSIVE ChargeRec(_, _)
ChargeRec(df, i) ==
    IF i <= 1 THEN 0
    ELSE ChargeRec(df, i - 1) + df[i].current * (df[i].time - df[i - 1].time)

\* x is the double clamp(num / den, 0, 100), for den > 0
IsClampOf(x, num, den) ==
    /\ x.k = "fin"
    /\ IF num <= 0 THEN x.n = 0
       ELSE IF num >= ClipHigh * den THEN x.n = ClipHigh * x.d
       ELSE x.n * den = num * x.d

InPercentRange(x) == x.k = "fin" /\ 0 <= x.n /\ x.n <= 100 * x.d

\* numerator of the unclamped SOC over the denominator cap * 3600
SocNum(df, i) ==
    initial_soc * initial_capacity * SecondsPerHour - Percent * ChargeRec(df, i)

SocDen == initial_capacity * SecondsPerHour

----------------------------------------------------------------------------
(* C1: for initial_capacity > 0, every element of the SOC series returned  *)
(* by calculate_soc and every element of the SOH series returned by        *)
(* calculate_soh is a finite value in [0, 100].                            *)
C1_OutputsInRange ==
    initial_capacity > 0 =>
        /\ socResult.status = "ok" =>
               \A i \in 1..Len(data) : InPercentRange(socResult.soc[i])
        /\ sohResult.status = "ok" =>
               \A i \in 1..Len(data) : InPercentRange(sohResult.soh[i])

\* a returned SOC whose unclamped value lies above 100
C1_Witness ==
    /\ initial_capacity > 0
    /\ socResult.status = "ok"
    /\ \E i \in 1..Len(data) :
           /\ SocNum(data, i) > ClipHigh * SocDen
           /\ socResult.soc[i] = FInt(100)

(* C2: for timestamps in non-decreasing order calculate_soc returns at     *)
(* every index clamp(initial_soc - chargeUsed[i] / (cap * 3600) * 100,     *)
(* 0, 100) with chargeUsed the running sum that starts at 0, so the first  *)
(* sample's current never contributes; 2 A over 3600 s at 2 Ah takes SOC   *)
(* from 100 to 0.                                                          *)
C2_SocIsCoulombCount ==
    (socResult.status = "ok" /\ initial_capacity > 0 /\ NonDecreasing(data)) =>
        /\ DOMAIN socResult.soc = 1..Len(data)
        /\ \A i \in 1..Len(data) :
               IsClampOf(socResult.soc[i], SocNum(data, i), SocDen)
        /\ IsClampOf(socResult.soc[1], initial_soc, 1)
        /\ ( /\ Len(data) = 2
             /\ data[1].time = 0 /\ data[1].current = 0
             /\ data[2].time = 3600 /\ data[2].current = 2
             /\ initial_capacity = 2 /\ initial_soc = 100 )
           => socResult.soc = <<FInt(100), FInt(0)>>

\* a sorted input whose first sample carries a current and whose SOC has
\* moved strictly inside (0, 100)
C2_Witness ==
    /\ socResult.status = "ok"
    /\ initial_capacity > 0
    /\ NonDecreasing(data)
    /\ Len(data) >= 2
    /\ data[1].current # 0
    /\ \E i \in 2..Len(data) :
           /\ socResult.soc[i] # socResult.soc[1]
           /\ socResult.soc[i].n > 0
           /\ socResult.soc[i].n < 100 * socResult.soc[i].d

\* the rate (T[i] - T[i-1]) / (t[i] - t[i-1]) is above thr, for t[i] # t[i-1]
RateAbove(df, i, thr) ==
    LET dT == df[i].temperature - df[i - 1].temperature
        dt == df[i].time - df[i - 1].time
    IN  IF dt > 0 THEN dT > thr * dt ELSE dT < thr * dt

\* x is the double num / den, for den # 0
IsQuotient(x, num, den) == x.k = "fin" /\ x.n * den = num * x.d

(* C3: detect_thermal_runaway is memoryless.  ThermalAlert[i] is true       *)
(* exactly when temperature[i] > threshold_temp or ThermalRate[i] >        *)
(* threshold_rate, both strict; ThermalRate[1] = 0 and ThermalRate[i] is   *)
(* the temperature difference over the time step; the flag is decided by   *)
(* samples i and i-1 alone.                                                *)
C3_AlertIsMemoryless ==
    thermalResult.status = "ok" =>
        /\ DOMAIN thermalResult.thermal_alert = 1..Len(data)
        /\ DOMAIN thermalResult.dT_dt = 1..Len(data)
        /\ \A i \in 1..Len(data) :
               /\ thermalResult.thermal_alert[i] <=>
                      \/ data[i].temperature > threshold_temp
                      \/ /\ thermalResult.dT_dt[i].k = "fin"
                         /\ thermalResult.dT_dt[i].n
                                > threshold_rate * thermalResult.dT_dt[i].d
                      \/ thermalResult.dT_dt[i].k = "pinf"
               /\ i = 1 => thermalResult.dT_dt[i] = FInt(0)
               /\ (i > 1 /\ data[i].time # data[i - 1].time) =>
                      /\ IsQuotient(thermalResult.dT_dt[i],
                                    data[i].temperature - data[i - 1].temperature,
                                    data[i].time - data[i - 1].time)
                      /\ thermalResult.thermal_alert[i] <=>
                             \/ data[i].temperature > threshold_temp
                             \/ RateAbove(data, i, threshold_rate)
        /\ ( /\ Len(data) = 2
             /\ data[1].time = 0 /\ data[1].temperature = 30
             /\ data[2].time = 10 /\ data[2].temperature = 50
             /\ threshold_temp = 45 /\ threshold_rate = 2 )
           => /\ thermalResult.thermal_alert = <<FALSE, TRUE>>
              /\ thermalResult.dT_dt = <<FInt(0), FInt(2)>>

\* an ALERT index followed by a SAFE index whose temperature and rate both
\* sit exactly at their thresholds
C3_Witness ==
    /\ thermalResult.status = "ok"
    /\ \E i \in 2..Len(data) :
           /\ thermalResult.thermal_alert[i - 1]
           /\ ~thermalResult.thermal_alert[i]
           /\ data[i].temperature = threshold_temp
           /\ thermalResult.dT_dt[i] = FInt(threshold_rate)

(* C4: called with initial_capacity <= 0 (here on a non-empty input) the   *)
(* estimator fails with an InvalidConfiguration error and returns no SOC   *)
(* or SOH series.                                                          *)
C4_InvalidConfigurationRaised ==
    (initial_capacity <= 0 /\ Len(data) > 0) =>
        /\ socResult.status # "none" =>
               (socResult.status = "error" /\ socResult.error = "InvalidConfiguration")
        /\ sohResult.status # "none" =>
               (sohResult.status = "error" /\ sohResult.error = "InvalidConfiguration")

(* C5: on an empty input calculate_soc, calculate_soh and                  *)
(* detect_thermal_runaway each return empty series and raise no error.     *)
C5_EmptyInputReturnsEmpty ==
    Len(data) = 0 =>
        /\ socResult.status # "none" =>
               (socResult.status = "ok" /\ socResult.soc = <<>>)
        /\ sohResult.status # "none" =>
               (sohResult.status = "ok" /\ sohResult.soh = <<>>)
        /\ thermalResult.status # "none" =>
               /\ thermalResult.status = "ok"
               /\ thermalResult.thermal_alert = <<>>
               /\ thermalResult.dT_dt = <<>>

(* C6: in calculate_soc (with a valid configuration) a sample whose        *)
(* timestamp is below its predecessor's has its time step treated as 0,    *)
(* so it leaves the running charge sum unchanged.                          *)
C6_NegativeDtAddsNothing ==
    (socResult.status = "ok" /\ initial_capacity > 0) =>
        \A i \in 2..Len(data) :
            data[i].time < data[i - 1].time =>
                socResult.charge_used[i] = socResult.charge_used[i - 1]

(* C7: in detect_thermal_runaway two consecutive samples with equal        *)
(* timestamps have their time step treated as 1, so ThermalRate[i] is the  *)
(* finite temperature difference.                                          *)
C7_ZeroDtTreatedAsOne ==
    thermalResult.status = "ok" =>
        \A i \in 2..Len(data) :
            data[i].time = data[i - 1].time =>
                thermalResult.dT_dt[i]
                    = FInt(data[i].temperature - data[i - 1].temperature)

C9_SohIsCapacityRatio ==
    (sohResult.status # "none" /\ initial_capacity > 0 /\ Len(data) > 0) =>
        /\ sohResult.status = "ok"
        /\ DOMAIN sohResult.soh = 1..Len(data)
        /\ \A i \in 1..Len(data) :
               IF hasCapacity
               THEN IsClampOf(sohResult.soh[i], Percent * data[i].capacity,
                              initial_capacity)
               ELSE sohResult.soh[i] = FInt(100)

\* the fallback on an input whose capacity column is absent
C9_Witness ==
    /\ sohResult.status = "ok"
    /\ ~hasCapacity
    /\ initial_capacity > 1
    /\ Len(data) = MaxLen
    /\ \A i \in 1..Len(data) : sohResult.soh[i] = FInt(100)

(* C10: the clamp acts on the reported SOC only, never on the running      *)
(* charge sum: for any sequence SOC[i] is the clamp of the unsaturated     *)
(* total, so after an excursion past a bound SOC stays at the bound until  *)
(* the opposite current has paid back the whole excess.                    *)
C10_ClampDoesNotTouchAccumulator ==
    (socResult.status = "ok" /\ initial_capacity > 0) =>
        \A i \in 2..Len(data) :
            /\ (SocNum(data, i - 1) < 0 /\ SocNum(data, i) <= 0) =>
                   socResult.soc[i] = FInt(0)
            /\ (SocNum(data, i - 1) > ClipHigh * SocDen
                   /\ SocNum(data, i) >= ClipHigh * SocDen) =>
                   socResult.soc[i] = FInt(100)
            /\ (SocNum(data, i) > 0 /\ SocNum(data, i) < ClipHigh * SocDen) =>
                   socResult.soc[i] = Norm(SocNum(data, i), SocDen)

\* below 0 before sample i, sample i charges, and SOC is still 0
C10_Witness ==
    /\ socResult.status = "ok"
    /\ initial_capacity > 0
    /\ \E i \in 2..Len(data) :
           /\ SocNum(data, i - 1) < 0
           /\ data[i].current * (data[i].time - data[i - 1].time) < 0
           /\ socResult.soc[i - 1] = FInt(0)
           /\ socResult.soc[i] = FInt(0)

====
